---- MODULE Spec2Model ----
(***************************************************************************)
(* Model of the todo REST service (server/src/index.ts): the route         *)
(* handlers of the Express application and the statements they send to     *)
(* the "todos" table through the pg connection pool.                       *)
(*                                                                         *)
(* Strings that the code parses, matches or measures are sequences of      *)
(* one-character strings; error messages are sequences of words.           *)
(***************************************************************************)
EXTENDS Integers, Sequences, FiniteSets, TLC

(***************************************************************************)
(* Bounds of the model.                                                    *)
(***************************************************************************)
MaxId == 2          \* values the SERIAL sequence may hand out
MaxSlots == 2       \* requests that may be suspended at an await at once
MaxPageRows == 11   \* rows of the table in the pagination specification

(***************************************************************************)
(* Program constants.                                                      *)
(***************************************************************************)
VarcharLen == 255
DefaultPage == 1
DefaultLimit == 10
StatusOk == 200
StatusError == 500

Slots == 1..MaxSlots

(***************************************************************************)
(* JavaScript and SQL values.                                              *)
(***************************************************************************)
\* the JavaScript value undefined (an absent body field or query parameter)
Undefined == <<"undefined">>

\* String(v): what a template literal or parseInt makes of a value
ToStr(v) ==
  IF v = Undefined THEN <<"u", "n", "d", "e", "f", "i", "n", "e", "d">> ELSE v

Digits == <<"0", "1", "2", "3", "4", "5", "6", "7", "8", "9">>

IsDigit(c) == \E i \in 1..10 : Digits[i] = c

DigitVal(c) == (CHOOSE i \in 1..10 : Digits[i] = c) - 1

IsSpace(c) == c = " "

\* number of leading characters of s, from position i on, that satisfy digit
RECURSIVE DigitRun(_, _)
DigitRun(s, i) ==
  IF i > Len(s) \/ ~IsDigit(s[i]) THEN 0 ELSE 1 + DigitRun(s, i + 1)

\* value of the n digits of s that start at position i
RECURSIVE DigitsValue(_, _, _, _)
DigitsValue(s, i, n, acc) ==
  IF n = 0 THEN acc ELSE DigitsValue(s, i + 1, n - 1, acc * 10 + DigitVal(s[i]))

RECURSIVE SkipSpaces(_, _)
SkipSpaces(s, i) ==
  IF i <= Len(s) /\ IsSpace(s[i]) THEN SkipSpaces(s, i + 1) ELSE i

NaN == [nan |-> TRUE, val |-> 0]

Num(n) == [nan |-> FALSE, val |-> n]

\* JavaScript parseInt: leading blanks, an optional sign, then the longest
\* run of digits; anything after the digits is ignored; no digit gives NaN
ParseInt(v) ==
  LET s == ToStr(v)
      i == SkipSpaces(s, 1)
      signed == i <= Len(s) /\ s[i] \in {"-", "+"}
      j == IF signed THEN i + 1 ELSE i
      n == DigitRun(s, j)
      mag == DigitsValue(s, j, n, 0)
  IN  IF n = 0 THEN NaN
      ELSE IF signed /\ s[i] = "-" THEN Num(0 - mag) ELSE Num(mag)

\* JavaScript  x || d  on a number: NaN and 0 are falsy
OrDefault(p, d) == IF p.nan \/ p.val = 0 THEN d ELSE p.val

\* decimal text of a natural number (the store returns COUNT(*) as text)
RECURSIVE ToDecimal(_)
ToDecimal(n) ==
  IF n < 10 THEN <<Digits[n + 1]>>
  ELSE ToDecimal(n \div 10) \o <<Digits[(n % 10) + 1]>>

\* Math.ceil(a / b) for a >= 0 and b > 0
Ceil(a, b) == (a + b - 1) \div b

\* the store's integer input: blanks, an optional sign and digits, nothing else
PgInt(v) ==
  LET s == ToStr(v)
      i == SkipSpaces(s, 1)
      signed == i <= Len(s) /\ s[i] \in {"-", "+"}
      j == IF signed THEN i + 1 ELSE i
      n == DigitRun(s, j)
      k == SkipSpaces(s, j + n)
      mag == DigitsValue(s, j, n, 0)
  IN  IF n = 0 \/ k <= Len(s) THEN NaN
      ELSE IF signed /\ s[i] = "-" THEN Num(0 - mag) ELSE Num(mag)

\* String.prototype.includes on messages, word by word
Includes(hay, needle) ==
  \E i \in 1..(Len(hay) + 1) :
    /\ i + Len(needle) - 1 <= Len(hay)
    /\ SubSeq(hay, i, i + Len(needle) - 1) = needle

Lower(c) ==
  IF c = "A" THEN "a" ELSE IF c = "B" THEN "b" ELSE c

\* text ILIKE pattern: % matches any run, _ any one character, letters
\* match regardless of case
RECURSIVE ILike(_, _, _, _)
ILike(t, i, p, j) ==
  IF j > Len(p) THEN i > Len(t)
  ELSE IF p[j] = "%"
    THEN \E k \in i..(Len(t) + 1) : ILike(t, k, p, j + 1)
  ELSE IF i > Len(t) THEN FALSE
  ELSE IF p[j] = "_" \/ Lower(p[j]) = Lower(t[i])
    THEN ILike(t, i + 1, p, j + 1)
  ELSE FALSE

(***************************************************************************)
(* Messages of the store's errors.                                         *)
(***************************************************************************)
MissingRelation == <<"relation", "todos", "does", "not", "exist">>

ErrUndefinedTable == MissingRelation
ErrDuplicateTable == <<"relation", "todos", "already", "exists">>
ErrNotNull == <<"null", "value", "in", "column", "text", "violates", "not-null", "constraint">>
ErrTooLong == <<"value", "too", "long", "for", "type", "character", "varying(255)">>
ErrBadInteger == <<"invalid", "input", "syntax", "for", "type", "integer">>
ErrBadTimestamp == <<"invalid", "input", "syntax", "for", "type", "timestamp">>
ErrNegativeLimit == <<"LIMIT", "must", "not", "be", "negative">>
ErrNegativeOffset == <<"OFFSET", "must", "not", "be", "negative">>
ErrNoCompleted == <<"column", "completed", "of", "relation", "todos", "does", "not", "exist">>
ErrNoCreatedAt == <<"column", "created_at", "does", "not", "exist">>
GetTodosMissingMessage == <<"The", "todos", "table", "does", "not", "exist", "in", "the", "database.">>

(***************************************************************************)
(* The store: the "todos" table behind the connection pool.                *)
(*   exists  whether the relation exists                                   *)
(*   cols    its columns                                                   *)
(*   rows    its rows, in the order a scan without ORDER BY returns them   *)
(*   seq     the next value of the SERIAL sequence of column id            *)
(***************************************************************************)
CreatedColumns == {"id", "text"}

FullColumns == {"id", "text", "completed", "created_at"}

NoTable == [exists |-> FALSE, cols |-> {}, rows |-> <<>>, seq |-> 1]

Indexes(rows) == 1..Len(rows)

Ids(rows) == {rows[i].id : i \in Indexes(rows)}

\* outcomes of a statement: an error, or result rows and the store after it
Fails(msg, after) == [ok |-> FALSE, err |-> msg, rows |-> <<>>, db |-> after]

Returns(result, after) == [ok |-> TRUE, err |-> <<>>, rows |-> result, db |-> after]

\* the row an INSERT stores: id from the sequence, the columns the statement
\* does not name from their defaults; created_at is the store's logical
\* time, which advances with the sequence
NewRow(db, text) ==
  IF "completed" \in db.cols
    THEN [id |-> db.seq, text |-> text, completed |-> FALSE, created_at |-> db.seq]
    ELSE [id |-> db.seq, text |-> text]

\* the scan orders an UPDATE of row i may leave: the new row version takes
\* the place of the old one, or is stored after the last row
Rewrite(rows, i, new) ==
  { [rows EXCEPT ![i] = new],
    SubSeq(rows, 1, i - 1) \o SubSeq(rows, i + 1, Len(rows)) \o <<new>> }

\* SELECT * FROM todos
SelectAll(db) ==
  IF ~db.exists THEN {Fails(ErrUndefinedTable, db)}
  ELSE {Returns(db.rows, db)}

\* variant: the statement without RETURNING *
InsertTodoNoReturning(db, text) ==
  IF ~db.exists THEN {Fails(ErrUndefinedTable, db)}
  ELSE IF text = Undefined THEN {Fails(ErrNotNull, [db EXCEPT !.seq = @ + 1])}
  ELSE IF Len(text) > VarcharLen THEN {Fails(ErrTooLong, db)}
  ELSE {Returns(<<>>, [db EXCEPT !.rows = Append(@, NewRow(db, text)), !.seq = @ + 1])}

\* INSERT INTO todos (text) VALUES ($1) RETURNING *
\* a rejected row may or may not have drawn a value from the sequence
InsertTodo(db, text) ==
  IF ~db.exists THEN {Fails(ErrUndefinedTable, db)}
  ELSE IF text = Undefined
    THEN {Fails(ErrNotNull, [db EXCEPT !.seq = s]) : s \in {db.seq, db.seq + 1}}
  ELSE IF Len(text) > VarcharLen
    THEN {Fails(ErrTooLong, [db EXCEPT !.seq = s]) : s \in {db.seq, db.seq + 1}}
  ELSE {Returns(<<NewRow(db, text)>>,
                [db EXCEPT !.rows = Append(@, NewRow(db, text)), !.seq = @ + 1])}

\* variant: the statement with all four columns of the schema
CreateTableFull(db) ==
  IF db.exists THEN {Fails(ErrDuplicateTable, db)}
  ELSE {Returns(<<>>, [exists |-> TRUE, cols |-> FullColumns,
                       rows |-> <<>>, seq |-> 1])}

\* CREATE TABLE todos (id SERIAL PRIMARY KEY, text VARCHAR(255) NOT NULL)
CreateTable(db) ==
  IF db.exists THEN {Fails(ErrDuplicateTable, db)}
  ELSE {Returns(<<>>, [exists |-> TRUE, cols |-> CreatedColumns,
                       rows |-> <<>>, seq |-> 1])}

\* UPDATE todos SET text = $1 WHERE id = $2 RETURNING *
\* an over-long text is rejected when the statement is planned or when a row
\* is rewritten, so without a matching row either outcome is possible
UpdateText(db, text, id) ==
  LET n == PgInt(id)
      hit == {i \in Indexes(db.rows) : db.rows[i].id = n.val}
  IN  IF ~db.exists THEN {Fails(ErrUndefinedTable, db)}
      ELSE IF n.nan THEN {Fails(ErrBadInteger, db)}
      ELSE IF text # Undefined /\ Len(text) > VarcharLen
        THEN {Fails(ErrTooLong, db)}
             \cup (IF hit = {} THEN {Returns(<<>>, db)} ELSE {})
      ELSE IF hit = {} THEN {Returns(<<>>, db)}
      ELSE IF text = Undefined THEN {Fails(ErrNotNull, db)}
      ELSE LET i == CHOOSE i \in hit : TRUE
               new == [db.rows[i] EXCEPT !.text = text]
           IN  {Returns(<<new>>, [db EXCEPT !.rows = rs]) : rs \in Rewrite(db.rows, i, new)}

\* variant: WHERE id <= $1
DeleteTodoUpTo(db, id) ==
  LET n == PgInt(id)
      Keep(row) == row.id > n.val
  IN  IF ~db.exists THEN {Fails(ErrUndefinedTable, db)}
      ELSE IF n.nan THEN {Fails(ErrBadInteger, db)}
      ELSE {Returns(<<>>, [db EXCEPT !.rows = SelectSeq(@, Keep)])}

\* DELETE FROM todos WHERE id = $1
DeleteTodo(db, id) ==
  LET n == PgInt(id)
      Keep(row) == row.id # n.val
  IN  IF ~db.exists THEN {Fails(ErrUndefinedTable, db)}
      ELSE IF n.nan THEN {Fails(ErrBadInteger, db)}
      ELSE {Returns(<<>>, [db EXCEPT !.rows = SelectSeq(@, Keep)])}

\* SELECT * FROM todos LIMIT $1 OFFSET $2
SelectPage(db, limit, offset) ==
  IF ~db.exists THEN {Fails(ErrUndefinedTable, db)}
  ELSE IF limit < 0 THEN {Fails(ErrNegativeLimit, db)}
  ELSE IF offset < 0 THEN {Fails(ErrNegativeOffset, db)}
  ELSE LET skipped == IF offset >= Len(db.rows) THEN <<>>
                      ELSE SubSeq(db.rows, offset + 1, Len(db.rows))
           taken == IF limit >= Len(skipped) THEN skipped
                    ELSE SubSeq(skipped, 1, limit)
       IN  {Returns(taken, db)}

\* SELECT COUNT(*) FROM todos : one row whose count is decimal text
SelectCount(db) ==
  IF ~db.exists THEN {Fails(ErrUndefinedTable, db)}
  ELSE {Returns(<<[count |-> ToDecimal(Len(db.rows))]>>, db)}

\* SELECT * FROM todos WHERE text ILIKE $1
SelectLike(db, pattern) ==
  LET Keep(row) == ILike(row.text, 1, pattern, 1)
  IN  IF ~db.exists THEN {Fails(ErrUndefinedTable, db)}
      ELSE {Returns(SelectSeq(db.rows, Keep), db)}

\* the store's timestamp input; an undefined parameter is sent as NULL
\* and NULL bounds match no row
SelectBetween(db, start, end) ==
  LET a == PgInt(start)
      b == PgInt(end)
      Keep(row) == a.val <= row.created_at /\ row.created_at <= b.val
  IN  IF ~db.exists THEN {Fails(ErrUndefinedTable, db)}
      ELSE IF "created_at" \notin db.cols THEN {Fails(ErrNoCreatedAt, db)}
      ELSE IF (start # Undefined /\ a.nan) \/ (end # Undefined /\ b.nan)
        THEN {Fails(ErrBadTimestamp, db)}
      ELSE IF start = Undefined \/ end = Undefined THEN {Returns(<<>>, db)}
      ELSE {Returns(SelectSeq(db.rows, Keep), db)}

\* UPDATE todos SET completed = TRUE WHERE id = $1 RETURNING *
CompleteTodo(db, id) ==
  LET n == PgInt(id)
      hit == {i \in Indexes(db.rows) : db.rows[i].id = n.val}
  IN  IF ~db.exists THEN {Fails(ErrUndefinedTable, db)}
      ELSE IF "completed" \notin db.cols THEN {Fails(ErrNoCompleted, db)}
      ELSE IF n.nan THEN {Fails(ErrBadInteger, db)}
      ELSE IF hit = {} THEN {Returns(<<>>, db)}
      ELSE LET i == CHOOSE i \in hit : TRUE
               new == [db.rows[i] EXCEPT !.completed = TRUE]
           IN  {Returns(<<new>>, [db EXCEPT !.rows = rs]) : rs \in Rewrite(db.rows, i, new)}

(***************************************************************************)
(* Requests.                                                               *)
(***************************************************************************)
Texts == {<<"a">>, <<"B">>}

LongText == [i \in 1..(VarcharLen + 1) |-> "a"]

\* req.body.text: a text the column takes, one it rejects, or none
BodyTexts == Texts \cup {LongText, Undefined}

\* req.params.id
IdParams == {ToDecimal(i) : i \in 1..MaxId} \cup {<<"x">>}

\* req.query.page and req.query.limit
PageParams == {Undefined, <<"1">>, <<"2">>}

LimitParams == {Undefined, <<"1">>, <<"2">>, <<"-", "1">>}

\* req.query.q
SearchParams == {Undefined, <<"A">>, <<"_">>}

\* req.query.start and req.query.end
DateParams == {Undefined, <<"2">>, <<"x">>}

(***************************************************************************)
(* State.                                                                  *)
(*   db        the store                                                   *)
(*   inflight  per slot, the handler suspended between two statements      *)
(*   res       the response a handler has just sent, until it is delivered *)
(*   posted    rows returned by POST /todos and not deleted or edited      *)
(*             since (history)                                             *)
(*   scen      how far the run follows the first-use scenario (history)    *)
(***************************************************************************)
VARIABLES db, inflight, res, posted, scen

vars == <<db, inflight, res, posted, scen>>

Idle == [route |-> "idle"]

NoRes == [route |-> "none"]

Off == 0 - 1

\* the statements a handler has run so far, with their outcomes
Stmt(name, o) == [stmt |-> name, ok |-> o.ok, err |-> o.err]

\* res.json(body) and res.status(500).json({error})
Send(route, req, status, json, body, log) ==
  [route |-> route, req |-> req, status |-> status, json |-> json,
   body |-> body, log |-> log]

SendError(route, req, msg, log) ==
  Send(route, req, StatusError, "object", [error |-> msg], log)

\* variant: no row is answered as not found
FirstRowOr404(route, req, o, log) ==
  IF Len(o.rows) = 0
    THEN Send(route, req, 404, "object", [error |-> <<"Todo", "not", "found">>], log)
    ELSE Send(route, req, StatusOk, "object", o.rows[1], log)

\* result.rows[0] of a statement that may have matched no row
FirstRow(route, req, o, log) ==
  IF Len(o.rows) = 0
    THEN Send(route, req, StatusOk, "undefined", Undefined, log)
    ELSE Send(route, req, StatusOk, "object", o.rows[1], log)

\* history: a handler suspended between the two reads of the paginated
\* route learns that the store changed
Mark(inf, after) ==
  [r \in Slots |->
     IF inf[r].route = "GET /todos/paginated" /\ after # db
       THEN [inf[r] EXCEPT !.wrote = TRUE] ELSE inf[r]]

Init ==
  /\ \/ db = NoTable /\ scen = 0
     \/ db = [exists |-> TRUE, cols |-> FullColumns, rows |-> <<>>, seq |-> 1]
        /\ scen = Off
  /\ inflight = [r \in Slots |-> Idle]
  /\ res = NoRes
  /\ posted = {}

(***************************************************************************)
(* app.get('/todos')                                                       *)
(***************************************************************************)
\* variant: responds with result.rows[0] in place of result.rows
GetTodosResponseFirstOnly(o) ==
  IF o.ok THEN Send("GET /todos", [none |-> TRUE], StatusOk, "array",
                    (IF Len(o.rows) = 0 THEN <<>> ELSE <<o.rows[1]>>), <<Stmt("SELECT", o)>>)
  ELSE IF Includes(o.err, MissingRelation)
    THEN SendError("GET /todos", [none |-> TRUE], GetTodosMissingMessage, <<Stmt("SELECT", o)>>)
  ELSE SendError("GET /todos", [none |-> TRUE], o.err, <<Stmt("SELECT", o)>>)

\* variant: no test of the message, the store's own always goes out
GetTodosResponsePlain(o) ==
  IF o.ok THEN Send("GET /todos", [none |-> TRUE], StatusOk, "array", o.rows, <<Stmt("SELECT", o)>>)
  ELSE SendError("GET /todos", [none |-> TRUE], o.err, <<Stmt("SELECT", o)>>)

GetTodosResponse(o) ==
  IF o.ok THEN Send("GET /todos", [none |-> TRUE], StatusOk, "array", o.rows, <<Stmt("SELECT", o)>>)
  ELSE IF Includes(o.err, MissingRelation)
    THEN SendError("GET /todos", [none |-> TRUE], GetTodosMissingMessage, <<Stmt("SELECT", o)>>)
  ELSE SendError("GET /todos", [none |-> TRUE], o.err, <<Stmt("SELECT", o)>>)

GetTodos ==
  /\ res = NoRes
  /\ \E o \in SelectAll(db) :
       /\ res' = GetTodosResponse(o)
       /\ db' = o.db
       /\ inflight' = Mark(inflight, o.db)

(***************************************************************************)
(* app.post('/todos')                                                      *)
(***************************************************************************)
\* the first INSERT failed with the missing-table error: go on to CREATE
Heals(o) == ~o.ok /\ Includes(o.err, MissingRelation)

PostResponse(text, o, log) ==
  IF o.ok THEN FirstRow("POST /todos", [text |-> text], o, log)
  ELSE SendError("POST /todos", [text |-> text], o.err, log)

\* line 41: the first INSERT; a handler that has to wait for the CREATE is
\* kept in the first free slot, and the sequence is capped at MaxId
PostTodos(r, text) ==
  /\ res = NoRes
  /\ inflight[r] = Idle
  /\ \A q \in Slots : q < r => inflight[q] # Idle
  /\ db.seq <= MaxId
  /\ \E o \in InsertTodo(db, text) :
       /\ db' = o.db
       /\ IF Heals(o)
            THEN /\ inflight' = [Mark(inflight, o.db) EXCEPT ![r] =
                        [route |-> "POST /todos", pc |-> "create", text |-> text,
                         log |-> <<Stmt("INSERT", o)>>]]
                 /\ res' = NoRes
            ELSE /\ inflight' = Mark(inflight, o.db)
                 /\ res' = PostResponse(text, o, <<Stmt("INSERT", o)>>)

\* variant: the INSERT is retried whether or not CREATE TABLE succeeded
PostCreateThenRetry(r) ==
  /\ res = NoRes
  /\ inflight[r].route = "POST /todos"
  /\ inflight[r].pc = "create"
  /\ \E o \in CreateTable(db) :
       /\ db' = o.db
       /\ inflight' = [Mark(inflight, o.db) EXCEPT ![r] =
              [inflight[r] EXCEPT !.pc = "retry",
                                  !.log = Append(@, Stmt("CREATE", o))]]
       /\ res' = NoRes

\* line 47: CREATE TABLE, and the response when it fails
PostCreate(r) ==
  /\ res = NoRes
  /\ inflight[r].route = "POST /todos"
  /\ inflight[r].pc = "create"
  /\ \E o \in CreateTable(db) :
       LET log == Append(inflight[r].log, Stmt("CREATE", o))
       IN  /\ db' = o.db
           /\ IF o.ok
                THEN /\ inflight' = [Mark(inflight, o.db) EXCEPT ![r] =
                            [inflight[r] EXCEPT !.pc = "retry", !.log = log]]
                     /\ res' = NoRes
                ELSE /\ inflight' = [Mark(inflight, o.db) EXCEPT ![r] = Idle]
                     /\ res' = PostResponse(inflight[r].text, o, log)

\* line 48: the second INSERT
PostRetry(r) ==
  /\ res = NoRes
  /\ inflight[r].route = "POST /todos"
  /\ inflight[r].pc = "retry"
  /\ db.seq <= MaxId
  /\ \E o \in InsertTodo(db, inflight[r].text) :
       /\ db' = o.db
       /\ inflight' = [Mark(inflight, o.db) EXCEPT ![r] = Idle]
       /\ res' = PostResponse(inflight[r].text, o,
                              Append(inflight[r].log, Stmt("INSERT", o)))

(***************************************************************************)
(* app.put('/todos/:id')                                                   *)
(***************************************************************************)
PutResponse(id, text, o) ==
  IF o.ok THEN FirstRow("PUT /todos/:id", [id |-> id, text |-> text], o, <<Stmt("UPDATE", o)>>)
  ELSE SendError("PUT /todos/:id", [id |-> id, text |-> text], o.err, <<Stmt("UPDATE", o)>>)

PutTodo(id, text) ==
  /\ res = NoRes
  /\ \E o \in UpdateText(db, text, id) :
       /\ db' = o.db
       /\ res' = PutResponse(id, text, o)
       /\ inflight' = Mark(inflight, o.db)

(***************************************************************************)
(* app.delete('/todos/:id')                                                *)
(***************************************************************************)
DeleteResponse(id, o) ==
  IF o.ok THEN Send("DELETE /todos/:id", [id |-> id], StatusOk, "object",
                    [message |-> "Todo deleted"], <<Stmt("DELETE", o)>>)
  ELSE SendError("DELETE /todos/:id", [id |-> id], o.err, <<Stmt("DELETE", o)>>)

DeleteTodoRoute(id) ==
  /\ res = NoRes
  /\ \E o \in DeleteTodo(db, id) :
       /\ db' = o.db
       /\ res' = DeleteResponse(id, o)
       /\ inflight' = Mark(inflight, o.db)

(***************************************************************************)
(* app.get('/todos/paginated')                                             *)
(***************************************************************************)
PageOf(query) == OrDefault(ParseInt(query.page), DefaultPage)

LimitOf(query) == OrDefault(ParseInt(query.limit), DefaultLimit)

\* variant: pages counted from 0
OffsetFromPage(page, limit) == page * limit

Offset(page, limit) == (page - 1) * limit

TotalPages(totalCount, limit) == Ceil(totalCount, limit)

\* variant: totalCount taken from the page read
PaginatedResponseOfPage(h, o, log) ==
  IF o.ok
    THEN LET totalCount == Len(h.rows)
         IN  Send("GET /todos/paginated", h.req, StatusOk, "object",
                  [todos |-> h.rows, currentPage |-> h.page,
                   totalPages |-> TotalPages(totalCount, h.limit),
                   totalCount |-> totalCount], log)
    ELSE SendError("GET /todos/paginated", h.req, o.err, log)

PaginatedResponse(h, o, log) ==
  IF o.ok
    THEN LET totalCount == ParseInt(o.rows[1].count).val
         IN  Send("GET /todos/paginated", h.req, StatusOk, "object",
                  [todos |-> h.rows, currentPage |-> h.page,
                   totalPages |-> TotalPages(totalCount, h.limit),
                   totalCount |-> totalCount], log)
    ELSE SendError("GET /todos/paginated", h.req, o.err, log)

\* line 92: the page read
PageRead(d, query) ==
  SelectPage(d, LimitOf(query), Offset(PageOf(query), LimitOf(query)))

\* the handler's locals after lines 87-92
Locals(query, o, seen) ==
  [route |-> "GET /todos/paginated", pc |-> "count", req |-> query,
   page |-> PageOf(query), limit |-> LimitOf(query), rows |-> o.rows,
   log |-> <<Stmt("SELECT", o)>>, seen |-> seen, wrote |-> FALSE]

\* history kept with the response: the number of rows the page was read
\* from, and whether the store changed before the count was read
Observed(h, response) ==
  [response EXCEPT !.log = [stmts |-> @, seen |-> h.seen, wrote |-> h.wrote]]

\* the whole handler, no other request's statement between its two reads
Paginated(query) ==
  /\ res = NoRes
  /\ \E o \in PageRead(db, query) :
       IF o.ok
         THEN \E c \in SelectCount(o.db) :
                LET h == Locals(query, o, Len(db.rows))
                IN  /\ db' = c.db
                    /\ res' = Observed(h, PaginatedResponse(h, c, Append(h.log, Stmt("COUNT", c))))
                    /\ inflight' = Mark(inflight, c.db)
         ELSE /\ db' = o.db
              /\ res' = Observed(Locals(query, o, Len(db.rows)),
                                 SendError("GET /todos/paginated", query, o.err,
                                           <<Stmt("SELECT", o)>>))
              /\ inflight' = Mark(inflight, o.db)

\* lines 87-92: the page read, after which the handler is suspended
PaginatedSelect(r, query) ==
  /\ res = NoRes
  /\ inflight[r] = Idle
  /\ \E o \in PageRead(db, query) :
       /\ db' = o.db
       /\ IF o.ok
            THEN /\ inflight' = [Mark(inflight, o.db) EXCEPT ![r] =
                                   Locals(query, o, Len(db.rows))]
                 /\ res' = NoRes
            ELSE /\ inflight' = Mark(inflight, o.db)
                 /\ res' = Observed(Locals(query, o, Len(db.rows)),
                                    SendError("GET /todos/paginated", query, o.err,
                                              <<Stmt("SELECT", o)>>))

\* lines 93-101: the count read and the response
PaginatedCount(r) ==
  /\ res = NoRes
  /\ inflight[r].route = "GET /todos/paginated"
  /\ \E c \in SelectCount(db) :
       LET h == inflight[r]
       IN  /\ db' = c.db
           /\ res' = Observed(h, PaginatedResponse(h, c, Append(h.log, Stmt("COUNT", c))))
           /\ inflight' = [Mark(inflight, c.db) EXCEPT ![r] = Idle]

(***************************************************************************)
(* app.get('/todos/search')                                                *)
(***************************************************************************)
\* `%${searchText}%`
Pattern(q) == <<"%">> \o ToStr(q) \o <<"%">>

RowsResponse(route, req, o, log) ==
  IF o.ok THEN Send(route, req, StatusOk, "array", o.rows, log)
  ELSE SendError(route, req, o.err, log)

SearchTodos(q) ==
  /\ res = NoRes
  /\ \E o \in SelectLike(db, Pattern(q)) :
       /\ db' = o.db
       /\ res' = RowsResponse("GET /todos/search", [q |-> q], o, <<Stmt("SELECT", o)>>)
       /\ inflight' = Mark(inflight, o.db)

(***************************************************************************)
(* app.get('/todos/date-range')                                            *)
(***************************************************************************)
DateRange(start, end) ==
  /\ res = NoRes
  /\ \E o \in SelectBetween(db, start, end) :
       /\ db' = o.db
       /\ res' = RowsResponse("GET /todos/date-range", [start |-> start, end |-> end],
                              o, <<Stmt("SELECT", o)>>)
       /\ inflight' = Mark(inflight, o.db)

(***************************************************************************)
(* app.get('/todos/count')                                                 *)
(***************************************************************************)
CountResponse(o) ==
  IF o.ok THEN Send("GET /todos/count", [none |-> TRUE], StatusOk, "object",
                    [count |-> ParseInt(o.rows[1].count).val], <<Stmt("COUNT", o)>>)
  ELSE SendError("GET /todos/count", [none |-> TRUE], o.err, <<Stmt("COUNT", o)>>)

CountTodos ==
  /\ res = NoRes
  /\ \E o \in SelectCount(db) :
       /\ db' = o.db
       /\ res' = CountResponse(o)
       /\ inflight' = Mark(inflight, o.db)

(***************************************************************************)
(* app.patch('/todos/:id/complete')                                        *)
(***************************************************************************)
CompleteResponse(id, o) ==
  IF o.ok THEN FirstRow("PATCH /todos/:id/complete", [id |-> id], o, <<Stmt("UPDATE", o)>>)
  ELSE SendError("PATCH /todos/:id/complete", [id |-> id], o.err, <<Stmt("UPDATE", o)>>)

CompleteTodoRoute(id) ==
  /\ res = NoRes
  /\ \E o \in CompleteTodo(db, id) :
       /\ db' = o.db
       /\ res' = CompleteResponse(id, o)
       /\ inflight' = Mark(inflight, o.db)

(***************************************************************************)
(* The response leaves the server.                                         *)
(***************************************************************************)
Deliver ==
  /\ res # NoRes
  /\ res' = NoRes
  /\ UNCHANGED <<db, inflight>>

(***************************************************************************)
(* History variables, kept from what a step shows: the response it sends   *)
(* and the handlers it leaves suspended.                                   *)
(***************************************************************************)
\* this step sends a response
Responds == res.route = "none" /\ res'.route # "none"

Suspended(inf) == {r \in Slots : inf[r] # Idle}

\* posted after this step: a successful POST adds the row it returned, a
\* successful DELETE or PUT removes the rows of its id
Track ==
  IF Responds /\ res'.route = "POST /todos" /\ res'.status = StatusOk
       /\ res'.json = "object"
    THEN posted \cup {[id |-> res'.body.id, text |-> res'.body.text]}
  ELSE IF Responds /\ res'.route \in {"PUT /todos/:id", "DELETE /todos/:id"}
            /\ res'.status = StatusOk
    THEN {p \in posted : p.id # PgInt(res'.req.id).val}
  ELSE posted

\* the requests of the first-use scenario, in order
Expected(k, response) ==
  \/ k = 1 /\ response.route = "POST /todos" /\ response.req.text \in Texts
  \/ k = 2 /\ response.route = "GET /todos/count"
  \/ k = 3 /\ response.route = "DELETE /todos/:id" /\ response.req.id = <<"1">>
  \/ k = 4 /\ response.route = "GET /todos"

\* scen after this step: k when the scenario's first k requests, and no
\* other, have been served one after the other from a store without table
Scenario ==
  IF Responds
    THEN IF Suspended(inflight') = {} /\ Expected(scen + 1, res')
           THEN scen + 1 ELSE Off
  ELSE IF inflight' # inflight
    THEN IF scen = 0 /\ \E r \in Slots :
                          /\ Suspended(inflight') = {r}
                          /\ inflight'[r].route = "POST /todos"
                          /\ inflight'[r].text \in Texts
           THEN scen ELSE Off
  ELSE scen

Watch == scen' = Scenario /\ UNCHANGED posted

Next ==
  \/ GetTodos /\ Watch
  \/ \E r \in Slots, text \in BodyTexts : PostTodos(r, text) /\ Watch
  \/ \E r \in Slots : PostCreate(r) /\ Watch
  \/ \E r \in Slots : PostRetry(r) /\ Watch
  \/ \E id \in IdParams, text \in BodyTexts : PutTodo(id, text) /\ Watch
  \/ \E id \in IdParams : DeleteTodoRoute(id) /\ Watch
  \/ \E page \in PageParams, limit \in LimitParams :
       Paginated([page |-> page, limit |-> limit]) /\ Watch
  \/ \E q \in SearchParams : SearchTodos(q) /\ Watch
  \/ \E start \in DateParams, end \in DateParams : DateRange(start, end) /\ Watch
  \/ CountTodos /\ Watch
  \/ \E id \in IdParams : CompleteTodoRoute(id) /\ Watch
  \/ Deliver /\ Watch

Spec == Init /\ [][Next]_vars

(***************************************************************************)
(* The routes that write, and GET /todos, with the history of the rows     *)
(* that POST /todos has returned.                                          *)
(***************************************************************************)
Remember == posted' = Track /\ UNCHANGED scen

NextList ==
  \/ GetTodos /\ Remember
  \/ \E r \in Slots, text \in BodyTexts : PostTodos(r, text) /\ Remember
  \/ \E r \in Slots : PostCreate(r) /\ Remember
  \/ \E r \in Slots : PostRetry(r) /\ Remember
  \/ \E id \in IdParams, text \in BodyTexts : PutTodo(id, text) /\ Remember
  \/ \E id \in IdParams : DeleteTodoRoute(id) /\ Remember
  \/ \E id \in IdParams : CompleteTodoRoute(id) /\ Remember
  \/ Deliver /\ Remember

SpecList == Init /\ [][NextList]_vars

(***************************************************************************)
(* The paginated route next to writers: the table exists and holds the     *)
(* rows of earlier POSTs; one paginated request may be suspended between   *)
(* its two reads while POST and DELETE requests are served.                *)
(***************************************************************************)
WidePageParams ==
  {Undefined, <<"x">>, <<"0">>, <<"-", "1">>, <<"2", "x">>}
    \cup {ToDecimal(i) : i \in {1, 2, 3, MaxPageRows + 1}}

WideLimitParams ==
  {Undefined, <<"x">>, <<"0">>, <<"-", "1">>, <<"2", "x">>}
    \cup {ToDecimal(i) : i \in 1..(MaxPageRows + 1)}

Stored(n) ==
  [exists |-> TRUE, cols |-> CreatedColumns,
   rows |-> [i \in 1..n |-> [id |-> i, text |-> <<"a">>]], seq |-> n + 1]

InitPage ==
  /\ \E n \in 0..MaxPageRows : db = Stored(n)
  /\ inflight = [r \in Slots |-> Idle]
  /\ res = NoRes
  /\ posted = {}
  /\ scen = Off

Still == UNCHANGED <<posted, scen>>

NextPage ==
  \/ \E page \in WidePageParams, limit \in WideLimitParams :
       PaginatedSelect(1, [page |-> page, limit |-> limit]) /\ Still
  \/ PaginatedCount(1) /\ Still
  \/ \E r \in Slots, text \in Texts : PostTodos(r, text) /\ Still
  \/ \E id \in IdParams : DeleteTodoRoute(id) /\ Still
  \/ Deliver /\ Still

SpecPage == InitPage /\ [][NextPage]_vars

(***************************************************************************)
(* Properties.                                                             *)
(***************************************************************************)
Responded == res.route # "none"

Stmts(response) ==
  IF response.route = "GET /todos/paginated" THEN response.log.stmts ELSE response.log

LastStmt(response) == Stmts(response)[Len(Stmts(response))]

IsError(response) ==
  /\ response.status = StatusError
  /\ response.json = "object"
  /\ DOMAIN response.body = {"error"}

IsMessage(response, text) ==
  /\ response.status = StatusOk
  /\ response.json = "object"
  /\ DOMAIN response.body = {"message"}
  /\ response.body.message = text

\* C1: a GET /todos that follows a successful POST /todos, with no DELETE or
\* PUT of the posted row in between, returns a list that contains a row with
\* the posted text
C1_PostThenGet ==
  (res.route = "GET /todos" /\ posted # {}) =>
    /\ res.status = StatusOk
    /\ res.json = "array"
    /\ \A p \in posted :
         \E i \in 1..Len(res.body) : res.body[i].id = p.id /\ res.body[i].text = p.text

C1_Witness ==
  /\ res.route = "GET /todos"
  /\ res.status = StatusOk
  /\ \E p \in posted : p.text = <<"B">>
  /\ \E p \in posted : p.text = <<"a">>

\* C2: from a store without the table, a single POST /todos fails its first
\* INSERT with the missing-table error, creates the table, retries the INSERT
\* once and returns the row with id 1; GET /todos/count then returns 1, and
\* after DELETE /todos/1 a GET /todos returns the empty list
C2_FirstPost ==
  /\ (scen = 1 /\ Responded) =>
       /\ res.route = "POST /todos"
       /\ res.status = StatusOk
       /\ res.json = "object"
       /\ res.body.id = 1
       /\ res.body.text = res.req.text
       /\ Len(res.log) = 3
       /\ res.log[1].stmt = "INSERT" /\ ~res.log[1].ok
       /\ Includes(res.log[1].err, MissingRelation)
       /\ res.log[2].stmt = "CREATE" /\ res.log[2].ok
       /\ res.log[3].stmt = "INSERT" /\ res.log[3].ok
  /\ (scen = 2 /\ Responded) =>
       /\ res.route = "GET /todos/count"
       /\ res.status = StatusOk
       /\ res.json = "object"
       /\ DOMAIN res.body = {"count"}
       /\ res.body.count = 1
  /\ (scen = 3 /\ Responded) =>
       /\ res.route = "DELETE /todos/:id"
       /\ IsMessage(res, "Todo deleted")
  /\ (scen = 4 /\ Responded) =>
       /\ res.route = "GET /todos"
       /\ res.status = StatusOk
       /\ res.json = "array"
       /\ res.body = <<>>

C2_Witness == scen = 4 /\ res.route = "GET /todos" /\ db.exists /\ db.seq = 2

\* C3: with the table present, DELETE /todos/:id answers {message: "Todo
\* deleted"} whether or not a row has the id; it removes the rows with that
\* id and no other, so an absent id changes nothing and a second DELETE of
\* the same id changes nothing more
C3_DeleteIdempotent ==
  [][ (Responds /\ res'.route = "DELETE /todos/:id" /\ db.exists
         /\ ~PgInt(res'.req.id).nan) =>
        LET id == PgInt(res'.req.id).val
            Other(row) == row.id # id
        IN  /\ IsMessage(res', "Todo deleted")
            /\ db'.rows = SelectSeq(db.rows, Other)
            /\ [db' EXCEPT !.rows = db.rows] = db
            /\ (id \notin Ids(db.rows) => db' = db)
            /\ \A again \in DeleteTodo(db', res'.req.id) : again.ok /\ again.db = db'
    ]_vars

C3_Witness ==
  /\ res.route = "DELETE /todos/:id"
  /\ res.status = StatusOk
  /\ Len(db.rows) > 0
  /\ PgInt(res.req.id).val >= db.seq

\* the parameter is the decimal text of n, or it is absent or has no digit
\* and n is the default
Given(param, n, default) ==
  \/ param = ToDecimal(n)
  \/ n = default /\ param \in {Undefined, <<"x">>}

\* the least k with k * l >= n
CeilDiv(n, l) == CHOOSE k \in 0..n : k * l >= n /\ (k = 0 \/ (k - 1) * l < n)

Min(a, b) == IF a < b THEN a ELSE b

\* the todos the route returns for page p with limit l over store d
PageTodos(d, p, l) ==
  (CHOOSE o \in PageRead(d, [page |-> ToDecimal(p), limit |-> ToDecimal(l)]) : TRUE).rows

RECURSIVE Pages(_, _, _)
Pages(d, l, k) == IF k = 0 THEN <<>> ELSE Pages(d, l, k - 1) \o PageTodos(d, k, l)

\* C4: over a store of N rows, with limit L >= 1 and no write between the
\* reads, totalPages is ceil(N/L), page p holds the rows at offsets (p-1)*L
\* to p*L-1, and the pages 1..totalPages in order are the rows of the store,
\* each once (taken while no request is being served); an absent or
\* non-numeric page or limit counts as 1 or 10
C4_Pagination ==
  /\ (res.route = "GET /todos/paginated" /\ res.status = StatusOk /\ ~res.log.wrote) =>
       \A p \in 1..(MaxPageRows + 1), l \in 1..(MaxPageRows + 1) :
         (Given(res.req.page, p, 1) /\ Given(res.req.limit, l, 10)) =>
           LET n == Len(db.rows)
           IN  /\ res.body.currentPage = p
               /\ res.body.totalCount = n
               /\ res.body.totalPages = CeilDiv(n, l)
               /\ Len(res.body.todos) = (IF (p - 1) * l >= n THEN 0 ELSE Min(p * l, n) - (p - 1) * l)
               /\ \A i \in 1..Len(res.body.todos) : res.body.todos[i] = db.rows[(p - 1) * l + i]
  /\ (db.exists /\ ~Responded /\ \A r \in Slots : inflight[r] = Idle) =>
       \A l \in 1..(MaxPageRows + 1) : Pages(db, l, CeilDiv(Len(db.rows), l)) = db.rows

C4_Witness ==
  /\ res.route = "GET /todos/paginated"
  /\ res.status = StatusOk
  /\ ~res.log.wrote
  /\ res.req.page = <<"2">>
  /\ res.req.limit = Undefined
  /\ Len(db.rows) = MaxPageRows
  /\ Len(res.body.todos) = MaxPageRows - 10
  /\ res.body.totalPages = 2

\* C5: PATCH /todos/:id/complete on the id of an existing row returns that
\* row with completed = true and changes no other row and no other field; a
\* repeated call returns the same row and leaves the store as it is
C5_CompleteExisting ==
  [][ (Responds /\ res'.route = "PATCH /todos/:id/complete"
         /\ ~PgInt(res'.req.id).nan /\ PgInt(res'.req.id).val \in Ids(db.rows)) =>
        LET id == PgInt(res'.req.id).val
            old == db.rows[CHOOSE i \in Indexes(db.rows) : db.rows[i].id = id]
            Other(row) == row.id # id
        IN  /\ res'.status = StatusOk
            /\ res'.json = "object"
            /\ "completed" \in DOMAIN res'.body
            /\ res'.body.completed = TRUE
            /\ res'.body = [c \in DOMAIN res'.body |->
                              IF c = "completed" THEN TRUE ELSE old[c]]
            /\ SelectSeq(db'.rows, Other) = SelectSeq(db.rows, Other)
            /\ \E i \in Indexes(db'.rows) : db'.rows[i] = res'.body
            /\ Len(db'.rows) = Len(db.rows)
            /\ \A again \in CompleteTodo(db', res'.req.id) :
                 /\ again.ok
                 /\ again.rows = <<res'.body>>
                 /\ {again.db.rows[i] : i \in Indexes(again.db.rows)}
                      = {db'.rows[i] : i \in Indexes(db'.rows)}
    ]_vars

\* the same on a table that has the four columns of the schema
C5_OnFullSchema ==
  [][ (Responds /\ res'.route = "PATCH /todos/:id/complete" /\ db.cols = FullColumns
         /\ ~PgInt(res'.req.id).nan /\ PgInt(res'.req.id).val \in Ids(db.rows)) =>
        LET id == PgInt(res'.req.id).val
            old == db.rows[CHOOSE i \in Indexes(db.rows) : db.rows[i].id = id]
            Other(row) == row.id # id
        IN  /\ res'.status = StatusOk
            /\ res'.json = "object"
            /\ res'.body = [old EXCEPT !.completed = TRUE]
            /\ SelectSeq(db'.rows, Other) = SelectSeq(db.rows, Other)
            /\ \E i \in Indexes(db'.rows) : db'.rows[i] = res'.body
            /\ Len(db'.rows) = Len(db.rows)
    ]_vars

\* C6: a route whose last statement fails answers 500 with a body {error:
\* message}; no response has another status than 200 or 500; a PUT or PATCH
\* whose statement matches no row answers 200 with an undefined body and
\* leaves the store unchanged
C6_ErrorsAre500 ==
  [][ Responds =>
        /\ res'.status \in {StatusOk, StatusError}
        /\ (res'.status = StatusError) <=> ~LastStmt(res').ok
        /\ ~LastStmt(res').ok =>
             /\ IsError(res')
             /\ res'.body.error \in {LastStmt(res').err, GetTodosMissingMessage}
        /\ (res'.route \in {"PUT /todos/:id", "PATCH /todos/:id/complete"}
              /\ ~PgInt(res'.req.id).nan
              /\ PgInt(res'.req.id).val \notin Ids(db.rows)) =>
             /\ db' = db
             /\ LastStmt(res').ok => (res'.status = StatusOk /\ res'.json = "undefined")
    ]_vars

C6_Witness ==
  /\ res.route \in {"PUT /todos/:id", "PATCH /todos/:id/complete"}
  /\ res.status = StatusOk
  /\ res.json = "undefined"
  /\ Len(db.rows) > 0
  /\ PgInt(res.req.id).val \notin Ids(db.rows)

\* C7: without the table every route but POST /todos answers 500 and leaves
\* the table absent, GET /todos with its own message and the others with the
\* store's; the table comes to exist only by the CREATE of a POST /todos and
\* never ceases to exist
C7_HealOnlyInPost ==
  [][ /\ (Responds /\ ~db.exists) =>
           /\ res'.route # "POST /todos"
           /\ IsError(res')
           /\ db' = db
           /\ res'.body.error =
                (IF res'.route = "GET /todos" THEN GetTodosMissingMessage
                 ELSE ErrUndefinedTable)
      /\ (~db.exists /\ db'.exists) =>
           \E r \in Slots :
             /\ inflight[r].route = "POST /todos" /\ inflight[r].pc = "create"
             /\ inflight'[r].route = "POST /todos" /\ inflight'[r].pc = "retry"
      /\ db.exists => db'.exists
    ]_vars

C7_Witness ==
  /\ res.route = "GET /todos"
  /\ res.status = StatusError
  /\ res.body.error = GetTodosMissingMessage
  /\ ~db.exists
  /\ \E r \in Slots : inflight[r].route = "POST /todos"

\* C8: a POST /todos whose CREATE TABLE fails answers 500 with the error of
\* the CREATE and runs no second INSERT; this happens when another POST has
\* created the table in between, and the text is then not stored
C8_CreateRace ==
  (res.route = "POST /todos" /\ \E i \in 1..Len(res.log) :
                                  res.log[i].stmt = "CREATE" /\ ~res.log[i].ok) =>
    /\ IsError(res)
    /\ res.body.error = ErrDuplicateTable
    /\ Len(res.log) = 2
    /\ res.log[1].stmt = "INSERT" /\ ~res.log[1].ok
    /\ res.log[2].stmt = "CREATE"
    /\ db.exists

C8_Witness ==
  /\ res.route = "POST /todos"
  /\ res.status = StatusError
  /\ Len(res.log) = 2
  /\ res.log[2].stmt = "CREATE" /\ ~res.log[2].ok
  /\ res.req.text \in Texts
  /\ db.exists
  /\ Len(db.rows) = 1
  /\ \A i \in Indexes(db.rows) : db.rows[i].text # res.req.text

\* C9: the table a POST /todos creates has the columns id and text only and
\* no step adds a column; on such a table every PATCH /todos/:id/complete
\* and every GET /todos/date-range answers 500 and leaves the store unchanged
C9_CreatedTableLacksColumns ==
  [][ /\ (~db.exists /\ db'.exists) => db'.cols = CreatedColumns
      /\ db.exists => db'.cols = db.cols
      /\ (Responds /\ db.exists /\ db.cols = CreatedColumns
            /\ res'.route \in {"PATCH /todos/:id/complete", "GET /todos/date-range"}) =>
           /\ IsError(res')
           /\ db' = db
    ]_vars

C9_Witness ==
  /\ res.route = "PATCH /todos/:id/complete"
  /\ res.status = StatusError
  /\ db.cols = CreatedColumns
  /\ PgInt(res.req.id).val \in Ids(db.rows)

\* C10: the paginated route reads the page and the count in two statements;
\* totalCount is the number of rows at the second read, and it differs from
\* the number of rows the page was read from only if the store was written
\* between the two reads
C10_CountAfterPage ==
  (res.route = "GET /todos/paginated" /\ res.status = StatusOk) =>
    /\ res.body.totalCount = Len(db.rows)
    /\ res.body.totalPages = CeilDiv(Len(db.rows), LimitOf(res.req))
    /\ ~res.log.wrote => res.body.totalCount = res.log.seen

C10_Witness ==
  /\ res.route = "GET /todos/paginated"
  /\ res.status = StatusOk
  /\ res.log.wrote
  /\ res.body.totalCount > res.log.seen
  /\ res.body.totalPages # CeilDiv(res.log.seen, LimitOf(res.req))

C10_WitnessDelete ==
  /\ res.route = "GET /todos/paginated"
  /\ res.status = StatusOk
  /\ res.body.totalCount < res.log.seen
====
